---- MODULE Spec2Model ----
(***************************************************************************)
(* A model of examples/ringbuffer/main.go: the orchestrator (main), which   *)
(* loads the eBPF objects, attaches four kprobes and a tracing link, opens  *)
(* three readers, starts three read loops and waits for a signal; and the   *)
(* three read loops (readLoopSipMessages, readLoopTcpClose,                 *)
(* readLoopTcpLatency), which read raw records, decode them with            *)
(* encoding/binary, filter on the first four bytes of Comm and log a line.  *)
(*                                                                         *)
(* The generated types (bpfEvent, bpfTcpevent, bpfLatdata) and the ringbuf, *)
(* perf and link packages are not part of the source at hand; their layouts *)
(* and the readers' Read/Close behaviour are modelled from the design text. *)
(***************************************************************************)
EXTENDS Integers, Sequences, FiniteSets, TLC

(***************************************************************************)
(* Bounds of the model.                                                    *)
(***************************************************************************)
\* Total number of rd.Read() calls that return something other than Closed.
MaxReads == 2
\* Width of the fixed-size Comm array (scaled down; at least 5 so that a name
\* can agree with "sipp" on its first four bytes and differ after them).
CommLen == 5
\* Width of the fixed-size Msg array of the message event (scaled down).
MsgLen == 2

(***************************************************************************)
(* Bytes, byte order and encoding/binary.                                   *)
(***************************************************************************)
LittleEndian == "little"
BigEndian == "big"

RECURSIVE Reverse(_)
Reverse(s) == IF s = <<>> THEN <<>> ELSE Append(Reverse(Tail(s)), Head(s))

\* The value of a byte string read least significant byte first.
RECURSIVE UintLE(_)
UintLE(bs) == IF bs = <<>> THEN 0 ELSE Head(bs) + 256 * UintLE(Tail(bs))

\* binary.ByteOrder.Uint16/Uint32/Uint64: the integer a byte string holds.
Uint(bs, order) == IF order = LittleEndian THEN UintLE(bs) ELSE UintLE(Reverse(bs))

\* The w bytes of v, least significant first.
RECURSIVE BytesLE(_, _)
BytesLE(v, w) == IF w = 0 THEN <<>> ELSE <<v % 256>> \o BytesLE(v \div 256, w - 1)

\* binary.ByteOrder.PutUint16/PutUint32/PutUint64.
PutUint(v, w, order) == IF order = LittleEndian THEN BytesLE(v, w) ELSE Reverse(BytesLE(v, w))

\* A layout is a sequence of fields; a field is a w-byte unsigned integer
\* (arr = FALSE) or an array of w bytes (arr = TRUE).
Scalar(name, w) == [name |-> name, w |-> w, arr |-> FALSE]
Array(name, w) == [name |-> name, w |-> w, arr |-> TRUE]

\* bpfEvent: pid, fd, len, comm, msg.
EventLayout == << Scalar("Pid", 4), Scalar("Fd", 4), Scalar("Len", 4),
                  Array("Comm", CommLen), Array("Msg", MsgLen) >>
\* bpfTcpevent: addresses, ports, smoothed RTT, comm.
TcpeventLayout == << Scalar("Saddr", 4), Scalar("Daddr", 4), Scalar("Sport", 2),
                     Scalar("Dport", 2), Scalar("Srtt", 4), Array("Comm", CommLen) >>
\* bpfLatdata: elapsed microseconds, comm.
LatdataLayout == << Scalar("DeltaUs", 8), Array("Comm", CommLen) >>

RECURSIVE LayoutSize(_)
LayoutSize(l) == IF l = <<>> THEN 0 ELSE Head(l).w + LayoutSize(Tail(l))

FieldNames(l) == { l[i].name : i \in DOMAIN l }
FieldIndex(l, name) == CHOOSE i \in DOMAIN l : l[i].name = name
FieldOffset(l, i) == LayoutSize(SubSeq(l, 1, i - 1))

DecodeField(raw, order, l, i) ==
    LET bs == SubSeq(raw, FieldOffset(l, i) + 1, FieldOffset(l, i) + l[i].w)
    IN  IF l[i].arr THEN bs ELSE Uint(bs, order)

\* The zero value of a struct with this layout (var event bpfXxx).
ZeroValue(l) ==
    [ name \in FieldNames(l) |->
        LET fd == l[FieldIndex(l, name)]
        IN  IF fd.arr THEN [ k \in 1..fd.w |-> 0 ] ELSE 0 ]

\* binary.Read(bytes.NewBuffer(raw), order, &data): reads LayoutSize bytes; a
\* shorter buffer is an error (io.EOF when empty, io.ErrUnexpectedEOF
\* otherwise) and leaves data as it was; bytes after the layout are ignored.
BinaryRead(raw, order, l, data) ==
    IF Len(raw) < LayoutSize(l)
    THEN [ err |-> IF Len(raw) = 0 THEN "EOF" ELSE "unexpected EOF", data |-> data ]
    ELSE [ err |-> "nil",
           data |-> [ name \in FieldNames(l) |->
                        DecodeField(raw, order, l, FieldIndex(l, name)) ] ]

\* The producer's side of the wire layout: the fields of ev laid out in order.
RECURSIVE EncodeFields(_, _, _)
EncodeFields(ev, order, l) ==
    IF l = <<>> THEN <<>>
    ELSE (IF Head(l).arr THEN ev[Head(l).name]
          ELSE PutUint(ev[Head(l).name], Head(l).w, order))
         \o EncodeFields(ev, order, Tail(l))

(***************************************************************************)
(* Formatting: what log.Printf's verbs print. A text is the sequence of its *)
(* bytes, as a Go string is.                                                *)
(***************************************************************************)
\* The bytes '0'..'9'.
DigitChars == << 48, 49, 50, 51, 52, 53, 54, 55, 56, 57 >>

\* %d of a non-negative integer.
RECURSIVE FmtD(_)
FmtD(n) == IF n < 10 THEN << DigitChars[n + 1] >>
           ELSE Append(FmtD(n \div 10), DigitChars[(n % 10) + 1])

\* unicode/utf8: the length a leading byte announces (0: not a leading byte).
RuneLen(c) == IF c >= 194 /\ c <= 223 THEN 2
              ELSE IF c >= 224 /\ c <= 239 THEN 3
              ELSE IF c >= 240 /\ c <= 244 THEN 4 ELSE 0

\* unicode/utf8 acceptRanges: the second byte allowed after leading byte c.
AcceptLo(c) == IF c = 224 THEN 160 ELSE IF c = 240 THEN 144 ELSE 128
AcceptHi(c) == IF c = 237 THEN 159 ELSE IF c = 244 THEN 143 ELSE 191
IsContinuation(c) == c >= 128 /\ c <= 191

\* The number of bytes the first rune of s takes; a byte that starts no valid
\* encoding is a rune of its own.
RuneSize(s) ==
    LET c == s[1]
        n == RuneLen(c)
    IN  IF c < 128 \/ n = 0 \/ n > Len(s) THEN 1
        ELSE IF s[2] < AcceptLo(c) \/ s[2] > AcceptHi(c) THEN 1
        ELSE IF n = 2 THEN 2
        ELSE IF ~IsContinuation(s[3]) THEN 1
        ELSE IF n = 3 THEN 3
        ELSE IF ~IsContinuation(s[4]) THEN 1
        ELSE 4

\* utf8.RuneCountInString: fmt measures the width of %-Ns in runes.
RECURSIVE RuneCountInString(_)
RuneCountInString(s) ==
    IF s = << >> THEN 0
    ELSE 1 + RuneCountInString(SubSeq(s, RuneSize(s) + 1, Len(s)))

RECURSIVE Spaces(_)
Spaces(k) == IF k <= 0 THEN << >> ELSE << 32 >> \o Spaces(k - 1)

\* %-Ns and %-Nd: left-justified, padded with spaces to a width of w runes.
PadRight(s, w) == s \o Spaces(w - RuneCountInString(s))

RECURSIVE Pow2(_)
Pow2(e) == IF e = 0 THEN 1 ELSE 2 * Pow2(e - 1)

RECURSIVE Pow2Mod1000(_)
Pow2Mod1000(e) == IF e = 0 THEN 1 ELSE (2 * Pow2Mod1000(e - 1)) % 1000

RECURSIVE Log2Floor(_)
Log2Floor(q) == IF q < 2 THEN 0 ELSE 1 + Log2Floor(q \div 2)

RECURSIVE ShiftTo1000(_)
ShiftTo1000(n) == IF n >= 1000 THEN 0 ELSE 1 + ShiftTo1000(2 * n)

\* a/b rounded to the nearest integer, ties to even.
RoundHalfEven(a, b) ==
    LET q == a \div b
        r == a % b
    IN  IF 2 * r > b \/ (2 * r = b /\ q % 2 = 1) THEN q + 1 ELSE q

\* float64(n) of an unsigned integer: n itself when it has at most 53
\* significant bits, else n rounded to 53 significant bits, ties to even.
Float64(n) ==
    LET b == Log2Floor(n)
    IN  IF b <= 52 THEN n
        ELSE RoundHalfEven(n, Pow2(b - 52)) * Pow2(b - 52)

\* The power of two s that scales f/1000 into [2^52, 2^53), f > 0 (negative
\* when f/1000 is 2^53 or more).
Scale1000(f) ==
    IF f >= 1000 THEN 52 - Log2Floor(f \div 1000) ELSE 52 + ShiftTo1000(f)

\* f/1000.0 for a double f > 0: the double nearest to f/1000, ties to even,
\* given by its mantissa m; the quotient is m / 2^Scale1000(f).
Mantissa1000(f) ==
    LET s == Scale1000(f)
    IN  IF s >= 0 THEN RoundHalfEven(f * Pow2(s), 1000)
        ELSE RoundHalfEven(f, 1000 * Pow2(0 - s))

\* The hundredths that %.2f shows for float64(n)/1000.0: the exact value of
\* the quotient double times 100, rounded to an integer, ties to even.
HundredthsOfDouble(n) ==
    LET f == Float64(n)
        s == Scale1000(f)
        m == Mantissa1000(f)
    IN  IF n = 0 THEN 0
        ELSE IF s >= 0 THEN RoundHalfEven(100 * m, Pow2(s))
        ELSE 100 * m * Pow2(0 - s)

\* For n below 2^31 (float64(n) = n, and the doubles near n/1000 lie much
\* closer than a thousandth) the remainder of n*2^s by 1000 tells on which
\* side of n/1000 the quotient double lies, without its mantissa: above 500
\* it was rounded up, below 500 (and not 0) down, 0 means n/1000 is a double.
QuotientRemainder(n) == ((n % 1000) * Pow2Mod1000(Scale1000(n))) % 1000

\* The hundredths that %.2f shows for float64(n)/1000.0. Below 2^31 they
\* follow from the last digit of n, and from the side of the quotient double
\* when that digit is 5; this is HundredthsOfDouble(n) computed in small
\* numbers.
Hundredths(n) ==
    IF n > 2147483647 THEN HundredthsOfDouble(n)
    ELSE LET h == n \div 10
             d == n % 10
             r == IF n = 0 THEN 0 ELSE QuotientRemainder(n)
             up == \/ d > 5
                   \/ d = 5 /\ r > 500
                   \/ d = 5 /\ r = 0 /\ h % 2 = 1
         IN  IF up THEN h + 1 ELSE h

\* fmt's %.2f of float64(n)/1000.0.
Fmt2f(n) ==
    LET H == Hundredths(n)
    IN  FmtD(H \div 100) \o << 46 >>
        \o << DigitChars[((H % 100) \div 10) + 1], DigitChars[(H % 10) + 1] >>

\* unix.ByteSliceToString: the bytes before the first NUL, as a string; %s
\* prints them as they are.
RECURSIVE ByteSliceToString(_)
ByteSliceToString(bs) ==
    IF bs = <<>> \/ Head(bs) = 0 THEN <<>>
    ELSE << Head(bs) >> \o ByteSliceToString(Tail(bs))

\* net.IP.String() of a 4-byte address: dotted quad.
IPString(ip) ==
    FmtD(ip[1]) \o << 46 >> \o FmtD(ip[2]) \o << 46 >> \o FmtD(ip[3])
    \o << 46 >> \o FmtD(ip[4])

\* The address is written in network (big-endian) order whatever the host.
intToIPBig(ipNum, native) == PutUint(ipNum, 4, BigEndian)

\* intToIP: the four bytes of ipNum in the host's byte order.
intToIP(ipNum, native) == PutUint(ipNum, 4, native)

\* The filter of all three loops: Comm[0..3] == 's','i','p','p'.
IsSipp(comm) == comm[1] = 115 /\ comm[2] = 105 /\ comm[3] = 112 /\ comm[4] = 112

(***************************************************************************)
(* State.                                                                  *)
(***************************************************************************)
VARIABLES
    mainPc,     \* where main is: a startup step, "wait", "return" or "exited"
    res,        \* each resource: "none" (not acquired), "open" or "closed"
    closes,     \* how many times Close was called on each resource
    closeOrder, \* the resources in the order their Close was called
    defers,     \* main's stack of deferred Close calls
    stopper,    \* number of signals buffered in the stopper channel (0 or 1)
    consumed,   \* number of signals main has received from stopper
    exitCode,   \* -1 while the process runs, then its exit status
    hostBig,    \* whether the host is big-endian (internal.NativeEndian)
    pc,         \* each read loop: "idle" (not started), "read" (in rd.Read()),
                \* "print" (at the log call of its iteration) or "done"
    lastRead,   \* each loop's record, err as its latest rd.Read() returned them
    event,      \* each loop's event variable (declared outside the for)
    nreads,     \* each loop's number of reads that did not return Closed
    log,        \* the lines written to the log sink, in order
    codec       \* the encode/decode harness (idle in the program's runs)

vars == << mainPc, res, closes, closeOrder, defers, stopper, consumed,
           exitCode, hostBig, pc, lastRead, event, nreads, log, codec >>

mainVars == << mainPc, res, closes, closeOrder, defers, exitCode >>
signalVars == << stopper, consumed >>
loopVars == << pc, lastRead, event, nreads >>

Procs == { "sip", "tcpclose", "latency" }
Probes == { "kp1", "kp2", "kp3", "kp4", "link" }
Readers == { "rd1", "rd2", "rd3" }
Resources == { "objs" } \cup Probes \cup Readers

\* go readLoopSipMessages(rd1); go readLoopTcpClose(rd2); go readLoopTcpLatency(rd3)
ReaderOf(p) == CASE p = "sip" -> "rd1" [] p = "tcpclose" -> "rd2" [] p = "latency" -> "rd3"
LayoutOf(p) == CASE p = "sip" -> EventLayout [] p = "tcpclose" -> TcpeventLayout
                 [] p = "latency" -> LatdataLayout

\* internal.NativeEndian
NativeEndian == IF hostBig THEN BigEndian ELSE LittleEndian

Running == -1

(***************************************************************************)
(* Log lines: who wrote the line, what it is, the format and its arguments  *)
(* as printed.                                                             *)
(***************************************************************************)
Line(src, kind, fmt, args) == [ src |-> src, kind |-> kind, fmt |-> fmt, args |-> args ]

(***************************************************************************)
(* The readers (ringbuf.Reader, perf.Reader).                               *)
(***************************************************************************)
ErrClosed == "closed"
ErrTransient == "transient"
ReadOk(raw, lost) == [ err |-> "nil", RawSample |-> raw, LostSamples |-> lost ]
ReadErr(e) == [ err |-> e, RawSample |-> <<>>, LostSamples |-> 0 ]
NoRead == ReadErr("none")

\* Process names the kernel side reports, as Comm arrays.
PadZero(bs) == [ k \in 1..CommLen |-> IF k <= Len(bs) THEN bs[k] ELSE 0 ]
NameSipp == PadZero(<< 115, 105, 112, 112 >>)
NameSippd == PadZero(<< 115, 105, 112, 112, 100 >>)
NameCurl == PadZero(<< 99, 117, 114, 108 >>)
NameSipx == PadZero(<< 115, 105, 112, 120 >>)
\* "sipp" and the two bytes of U+00E9, as far as the Comm array holds them.
NameSippe == PadZero(<< 115, 105, 112, 112, 195, 169 >>)
NameZero == PadZero(<< >>)
Names == { NameSipp, NameSippd, NameCurl, NameZero }
\* The processes whose records reader p's buffer holds in the program's
\* runs: one that passes the filter and one that does not, and on the
\* connection-close buffer a second one that passes.
FeedNames(p) ==
    { NameSipp, NameCurl } \cup (IF p = "tcpclose" THEN { NameSippd } ELSE { })
WideNames == Names \cup { NameSipx, NameSippe }

MsgOf(bs) == [ k \in 1..MsgLen |-> IF k <= Len(bs) THEN bs[k] ELSE 0 ]

\* The events the kernel side produces in the program's runs.
SampleEvent(p, comm) ==
    CASE p = "sip" -> [ Pid |-> 4242, Fd |-> 7, Len |-> 2, Comm |-> comm,
                        Msg |-> MsgOf(<< 111, 107 >>) ]
      [] p = "tcpclose" -> [ Saddr |-> Uint(<< 10, 0, 0, 1 >>, NativeEndian),
                             Daddr |-> Uint(<< 10, 0, 0, 2 >>, NativeEndian),
                             Sport |-> 5000, Dport |-> 5060, Srtt |-> 2500,
                             Comm |-> comm ]
      [] p = "latency" -> [ DeltaUs |-> 1500, Comm |-> comm ]

\* The byte order the kernel side wrote each kind in.
WireOrder(p) == IF p = "tcpclose" THEN NativeEndian ELSE LittleEndian

\* The raw samples a reader may deliver: full records, and one cut short.
Feed(p) ==
    { EncodeFields(SampleEvent(p, c), WireOrder(p), LayoutOf(p)) : c \in FeedNames(p) }
    \cup { SubSeq(EncodeFields(SampleEvent(p, NameSipp), WireOrder(p), LayoutOf(p)),
                  1, LayoutSize(LayoutOf(p)) - 1) }

TotalReads == nreads["sip"] + nreads["tcpclose"] + nreads["latency"]

\* What rd.Read() may return now: Closed once the reader is closed; otherwise
\* (blocking until then) a record, a lost-samples report on the perf reader,
\* or an error other than Closed.
ReadResults(p) ==
    IF res[ReaderOf(p)] = "closed" THEN { ReadErr(ErrClosed) }
    ELSE IF TotalReads >= MaxReads THEN { }
    ELSE { ReadErr(ErrTransient) }
         \cup { ReadOk(raw, 0) : raw \in Feed(p) }
         \cup (IF p = "latency" THEN { ReadOk(<< >>, 3) } ELSE { })

(***************************************************************************)
(* The read loops. Each body is one iteration of the for loop, from the     *)
(* result rr of rd.Read() and the loop's event variable ev to the loop's    *)
(* next position, the event variable and the line to log. An iteration is   *)
(* two steps of its goroutine: the return of rd.Read(), and the log call.   *)
(***************************************************************************)
Iteration(nextPc, ev, out) == [ pc |-> nextPc, event |-> ev, out |-> out ]

ErrText(e) == << << e >> >>

\* binary.Read(bytes.NewBuffer(record.RawSample), binary.LittleEndian, &event)
DecodeLatdata(raw, data) == BinaryRead(raw, LittleEndian, LatdataLayout, data)

\* The message record is read in big-endian order.
DecodeEventBig(raw, data) == BinaryRead(raw, BigEndian, EventLayout, data)

\* binary.Read(bytes.NewBuffer(record.RawSample), binary.LittleEndian, &event)
DecodeEvent(raw, data) == BinaryRead(raw, LittleEndian, EventLayout, data)

\* binary.Read(bytes.NewBuffer(record.RawSample), internal.NativeEndian, &tcpevent)
DecodeTcpevent(raw, data, native) == BinaryRead(raw, native, TcpeventLayout, data)

\* The filter compares the whole field with the name.
CommMatchesWholeField(comm) == comm = [ k \in 1..CommLen |-> IF k <= 4 THEN << 115, 105, 112, 112 >>[k] ELSE 0 ]

\* if event.Comm[0] == 115 && event.Comm[1] == 105 && event.Comm[2] == 112 && event.Comm[3] == 112
CommMatches(comm) == IsSipp(comm)

\* log.Printf("Latency: %.2f\tcomm: %s", float64(event.DeltaUs)/1000.0, ...)
LatencyLine(ev) ==
    Line("latency", "event", "Latency: %.2f\tcomm: %s",
         << Fmt2f(ev.DeltaUs), ByteSliceToString(ev.Comm) >>)

\* log.Printf("pid: %d\tfd: %d\tlen: %d\tcomm: %s\n%s \n\n", ...)
SipLine(ev) ==
    Line("sip", "event", "pid: %d\tfd: %d\tlen: %d\tcomm: %s\n%s \n\n",
         << FmtD(ev.Pid), FmtD(ev.Fd), FmtD(ev.Len), ByteSliceToString(ev.Comm),
            ByteSliceToString(ev.Msg) >>)

\* log.Printf("%-15s %-6d -> %-15s %-6d %.2f %-6s", ...)
TcpCloseLine(ev, native) ==
    Line("tcpclose", "event", "%-15s %-6d -> %-15s %-6d %.2f %-6s",
         << PadRight(IPString(intToIP(ev.Saddr, native)), 15),
            PadRight(FmtD(ev.Sport), 6),
            PadRight(IPString(intToIP(ev.Daddr, native)), 15),
            PadRight(FmtD(ev.Dport), 6),
            Fmt2f(ev.Srtt),
            PadRight(ByteSliceToString(ev.Comm), 6) >>)

\* The loop has seen Closed as any other error: the errors.Is check is missing.
LatencyReadErrorStops(rr, ev) ==
    IF rr.err = ErrClosed
    THEN Iteration("done", ev, << >>)
    ELSE Iteration("done", ev,
           << Line("latency", "error", "reading from perf event reader: %s",
                   ErrText(rr.err)) >>)

\* if err != nil { if errors.Is(err, perf.ErrClosed) { return }; log; continue }
LatencyReadError(rr, ev) ==
    IF rr.err = ErrClosed
    THEN Iteration("done", ev, << >>)
    ELSE Iteration("read", ev,
           << Line("latency", "error", "reading from perf event reader: %s",
                   ErrText(rr.err)) >>)

\* The loss count is never looked at.
HasLossNever(rr) == FALSE

\* if record.LostSamples != 0
HasLoss(rr) == rr.LostSamples # 0

\* log.Printf("perf event ring buffer full, dropped %d samples", ...); continue
LatencyLoss(rr, ev) ==
    Iteration("read", ev,
      << Line("latency", "loss", "perf event ring buffer full, dropped %d samples",
              << FmtD(rr.LostSamples) >>) >>)

\* log.Printf("parsing perf event: %s", err); continue
LatencyDecodeError(d) ==
    Iteration("read", d.data,
      << Line("latency", "error", "parsing perf event: %s", ErrText(d.err)) >>)

LatencyBody(rr, ev) ==
    IF rr.err # "nil" THEN LatencyReadError(rr, ev)
    ELSE IF HasLoss(rr) THEN LatencyLoss(rr, ev)
    ELSE LET d == DecodeLatdata(rr.RawSample, ev)
         IN  IF d.err # "nil" THEN LatencyDecodeError(d)
             ELSE Iteration("read", d.data,
                    IF CommMatches(d.data.Comm) THEN << LatencyLine(d.data) >>
                    ELSE << >>)

\* Closed is logged like any other read error and the loop goes on.
SipReadErrorNoClosedCheck(rr, ev) ==
    Iteration("read", ev,
      << Line("sip", "error", "reading from reader: %s", ErrText(rr.err)) >>)

\* if err != nil { if errors.Is(err, ringbuf.ErrClosed) { log; return }; log; continue }
SipReadError(rr, ev) ==
    IF rr.err = ErrClosed
    THEN Iteration("done", ev,
           << Line("sip", "info", "Received signal, exiting..", << >>) >>)
    ELSE Iteration("read", ev,
           << Line("sip", "error", "reading from reader: %s", ErrText(rr.err)) >>)

\* The decode error is logged and the iteration goes on to the filter and
\* the output with what the event variable holds: the continue is missing.
SipDecodeErrorFallsThrough(d) ==
    Iteration("read", d.data,
      << Line("sip", "error", "parsing ringbuf event: %s", ErrText(d.err)) >>
      \o (IF CommMatches(d.data.Comm) THEN << SipLine(d.data) >> ELSE << >>))

\* log.Printf("parsing ringbuf event: %s", err); continue
SipDecodeError(d) ==
    Iteration("read", d.data,
      << Line("sip", "error", "parsing ringbuf event: %s", ErrText(d.err)) >>)

SipBody(rr, ev) ==
    IF rr.err # "nil" THEN SipReadError(rr, ev)
    ELSE LET d == DecodeEvent(rr.RawSample, ev)
         IN  IF d.err # "nil" THEN SipDecodeError(d)
             ELSE Iteration("read", d.data,
                    IF CommMatches(d.data.Comm) THEN << SipLine(d.data) >>
                    ELSE << >>)

\* if err != nil { if errors.Is(err, ringbuf.ErrClosed) { log; return }; log; continue }
TcpCloseReadError(rr, ev) ==
    IF rr.err = ErrClosed
    THEN Iteration("done", ev,
           << Line("tcpclose", "info", "received signal, exiting..", << >>) >>)
    ELSE Iteration("read", ev,
           << Line("tcpclose", "error", "reading from reader: %s", ErrText(rr.err)) >>)

\* A decode error ends the loop: return in place of continue.
TcpCloseDecodeErrorReturns(d) ==
    Iteration("done", d.data,
      << Line("tcpclose", "error", "parsing ringbuf event: %s", ErrText(d.err)) >>)

\* log.Printf("parsing ringbuf event: %s", err); continue
TcpCloseDecodeError(d) ==
    Iteration("read", d.data,
      << Line("tcpclose", "error", "parsing ringbuf event: %s", ErrText(d.err)) >>)

TcpCloseBody(rr, ev, native) ==
    IF rr.err # "nil" THEN TcpCloseReadError(rr, ev)
    ELSE LET d == DecodeTcpevent(rr.RawSample, ev, native)
         IN  IF d.err # "nil" THEN TcpCloseDecodeError(d)
             ELSE Iteration("read", d.data,
                    IF CommMatches(d.data.Comm) THEN << TcpCloseLine(d.data, native) >>
                    ELSE << >>)

\* The body of loop p on the result rr of its read, its event variable ev.
BodyOf(p, rr, ev, native) ==
    CASE p = "sip" -> SipBody(rr, ev)
      [] p = "tcpclose" -> TcpCloseBody(rr, ev, native)
      [] p = "latency" -> LatencyBody(rr, ev)

\* The loops decode into one variable shared by the three of them.
LoopReadSharedEvent(p, rr, b) ==
    /\ lastRead' = [ lastRead EXCEPT ![p] = rr ]
    /\ nreads' = [ nreads EXCEPT ![p] = IF rr.err = ErrClosed THEN @ ELSE @ + 1 ]
    /\ event' = [ q \in Procs |-> b.event ]
    /\ pc' = [ pc EXCEPT ![p] = IF b.out = << >> THEN b.pc ELSE "print" ]
    /\ UNCHANGED << log, mainVars, signalVars, hostBig, codec >>

\* record, err := rd.Read() returns rr, and the goroutine works on it up to
\* its log call: the checks of err and of LostSamples, binary.Read into the
\* event variable, the filter (b is the body's outcome). These statements use
\* the goroutine's own variables only, so they are taken with the return of
\* Read. With nothing to log the iteration is over: continue, or return.
LoopRead(p, rr, b) ==
    /\ lastRead' = [ lastRead EXCEPT ![p] = rr ]
    /\ nreads' = [ nreads EXCEPT ![p] = IF rr.err = ErrClosed THEN @ ELSE @ + 1 ]
    /\ event' = [ event EXCEPT ![p] = b.event ]
    /\ pc' = [ pc EXCEPT ![p] = IF b.out = << >> THEN b.pc ELSE "print" ]
    /\ UNCHANGED << log, mainVars, signalVars, hostBig, codec >>

\* The line is put in front of the log, newest first.
LoopPrintNewestFirst(p, b) ==
    /\ log' = b.out \o log
    /\ pc' = [ pc EXCEPT ![p] = b.pc ]
    /\ UNCHANGED << lastRead, event, nreads, mainVars, signalVars, hostBig, codec >>

\* log.Printf / log.Println writes the iteration's line (the logger's mutex
\* makes the write one step); then continue, or return.
LoopPrint(p, b) ==
    /\ log' = log \o b.out
    /\ pc' = [ pc EXCEPT ![p] = b.pc ]
    /\ UNCHANGED << lastRead, event, nreads, mainVars, signalVars, hostBig, codec >>

\* The goroutine of loop p takes its next step: the return of rd.Read(), or
\* the log call of the iteration under way. Nothing is held from the one to
\* the other, so main's receive, return, deferred Close calls and exit, and
\* the steps of the other goroutines, fall in between.
LoopNext(p) ==
    /\ exitCode = Running
    /\ \/ /\ pc[p] = "read"
          /\ \E rr \in ReadResults(p) :
               LoopRead(p, rr, BodyOf(p, rr, event[p], NativeEndian))
       \/ /\ pc[p] = "print"
          /\ LoopPrint(p, BodyOf(p, lastRead[p], event[p], NativeEndian))

readLoopTcpLatency == LoopNext("latency")

readLoopSipMessages == LoopNext("sip")

readLoopTcpClose == LoopNext("tcpclose")

(***************************************************************************)
(* main.                                                                   *)
(***************************************************************************)
Steps == << "rlimit", "objs", "kp1", "kp2", "kp3", "kp4", "link",
            "rd1", "rd2", "rd3", "listen", "go_sip", "go_tcpclose",
            "go_latency", "wait" >>

After(step) == Steps[(CHOOSE i \in DOMAIN Steps : Steps[i] = step) + 1]

\* The failure is logged and main carries on: log.Printf in place of log.Fatalf.
FatalContinues(fmt) ==
    /\ log' = Append(log, Line("main", "fatal", fmt, ErrText("err")))
    /\ mainPc' = After(mainPc)
    /\ UNCHANGED << res, closes, closeOrder, defers, exitCode >>

\* log.Fatal / log.Fatalf: print the line, then os.Exit(1); deferred calls
\* do not run.
Fatal(fmt) ==
    /\ log' = Append(log, Line("main", "fatal", fmt, ErrText("err")))
    /\ mainPc' = "exited"
    /\ exitCode' = 1
    /\ UNCHANGED << res, closes, closeOrder, defers >>

\* r acquired, its Close not deferred.
AcquireNoDefer(r) ==
    /\ res' = [ res EXCEPT ![r] = "open" ]
    /\ mainPc' = After(r)
    /\ UNCHANGED << defers, closes, closeOrder, exitCode, log >>

\* r acquired, and its Close deferred.
Acquire(r) ==
    /\ res' = [ res EXCEPT ![r] = "open" ]
    /\ defers' = Append(defers, r)
    /\ mainPc' = After(r)
    /\ UNCHANGED << closes, closeOrder, exitCode, log >>

\* if err := rlimit.RemoveMemlock(); err != nil { log.Fatal(err) }
RemoveMemlock ==
    /\ mainPc = "rlimit"
    /\ \/ /\ mainPc' = After("rlimit")
          /\ UNCHANGED << res, closes, closeOrder, defers, exitCode, log >>
       \/ Fatal("%v")
    /\ UNCHANGED << signalVars, loopVars, hostBig, codec >>

\* loadBpfObjects(&objs, nil); defer objs.Close()
LoadBpfObjects ==
    /\ mainPc = "objs"
    /\ \/ Acquire("objs")
       \/ Fatal("loading objects: %v")
    /\ UNCHANGED << signalVars, loopVars, hostBig, codec >>

\* kpN, err := link.Kprobe(fnN, ...); defer kpN.Close()
Kprobe ==
    /\ mainPc \in { "kp1", "kp2", "kp3", "kp4" }
    /\ \/ Acquire(mainPc)
       \/ Fatal("opening kprobe: %s")
    /\ UNCHANGED << signalVars, loopVars, hostBig, codec >>

\* link, err := link.AttachTracing(...); defer link.Close()
AttachTracing ==
    /\ mainPc = "link"
    /\ \/ Acquire("link")
       \/ Fatal("%v")
    /\ UNCHANGED << signalVars, loopVars, hostBig, codec >>

\* The readers are opened and their Close is not deferred.
NewReaderNoDefer ==
    /\ mainPc \in Readers
    /\ \/ AcquireNoDefer(mainPc)
       \/ Fatal(IF mainPc = "rd3" THEN "creating perf event reader: %s"
                ELSE "opening ringbuf reader: %s")
    /\ UNCHANGED << signalVars, loopVars, hostBig, codec >>

\* rdN, err := ringbuf.NewReader(...) / perf.NewReader(...); defer rdN.Close()
NewReader ==
    /\ mainPc \in Readers
    /\ \/ Acquire(mainPc)
       \/ Fatal(IF mainPc = "rd3" THEN "creating perf event reader: %s"
                ELSE "opening ringbuf reader: %s")
    /\ UNCHANGED << signalVars, loopVars, hostBig, codec >>

\* log.Printf("Listening for events..")
Listening ==
    /\ mainPc = "listen"
    /\ mainPc' = After("listen")
    /\ log' = Append(log, Line("main", "info", "Listening for events..", << >>))
    /\ UNCHANGED << res, closes, closeOrder, defers, exitCode >>
    /\ UNCHANGED << signalVars, loopVars, hostBig, codec >>

GoStep(p) == CASE p = "sip" -> "go_sip" [] p = "tcpclose" -> "go_tcpclose"
               [] p = "latency" -> "go_latency"

\* go readLoopSipMessages(rd1); go readLoopTcpClose(rd2); go readLoopTcpLatency(rd3)
Go ==
    /\ \E p \in Procs :
         /\ mainPc = GoStep(p)
         /\ pc' = [ pc EXCEPT ![p] = "read" ]
    /\ mainPc' = After(mainPc)
    /\ UNCHANGED << res, closes, closeOrder, defers, exitCode, log >>
    /\ UNCHANGED << signalVars, lastRead, event, nreads, hostBig, codec >>

\* stopper := make(chan os.Signal, 1)
StopperCap == 1

\* The receive does not block: select { case <-stopper: default: }.
WaitSignalNonBlocking ==
    /\ mainPc = "wait"
    /\ stopper' = IF stopper > 0 THEN stopper - 1 ELSE stopper
    /\ consumed' = consumed + 1
    /\ mainPc' = "return"
    /\ UNCHANGED << res, closes, closeOrder, defers, exitCode, log >>
    /\ UNCHANGED << loopVars, hostBig, codec >>

\* <-stopper
WaitSignal ==
    /\ mainPc = "wait"
    /\ stopper > 0
    /\ stopper' = stopper - 1
    /\ consumed' = consumed + 1
    /\ mainPc' = "return"
    /\ UNCHANGED << res, closes, closeOrder, defers, exitCode, log >>
    /\ UNCHANGED << loopVars, hostBig, codec >>

\* The deferred calls run first deferred first.
RunDeferredFifo ==
    /\ mainPc = "return"
    /\ defers # << >>
    /\ LET r == defers[1]
       IN  /\ res' = [ res EXCEPT ![r] = "closed" ]
           /\ closes' = [ closes EXCEPT ![r] = @ + 1 ]
           /\ closeOrder' = Append(closeOrder, r)
    /\ defers' = Tail(defers)
    /\ UNCHANGED << mainPc, exitCode, log >>
    /\ UNCHANGED << signalVars, loopVars, hostBig, codec >>

\* main returns: the deferred Close calls run, last deferred first.
RunDeferred ==
    /\ mainPc = "return"
    /\ defers # << >>
    /\ LET r == defers[Len(defers)]
       IN  /\ res' = [ res EXCEPT ![r] = "closed" ]
           /\ closes' = [ closes EXCEPT ![r] = @ + 1 ]
           /\ closeOrder' = Append(closeOrder, r)
    /\ defers' = SubSeq(defers, 1, Len(defers) - 1)
    /\ UNCHANGED << mainPc, exitCode, log >>
    /\ UNCHANGED << signalVars, loopVars, hostBig, codec >>

\* main has returned: the process exits with status 0, ending every goroutine.
Exit ==
    /\ mainPc = "return"
    /\ defers = << >>
    /\ mainPc' = "exited"
    /\ exitCode' = 0
    /\ UNCHANGED << res, closes, closeOrder, defers, log >>
    /\ UNCHANGED << signalVars, loopVars, hostBig, codec >>

\* os.Interrupt or SIGTERM is delivered: signal.Notify sends on stopper
\* without blocking, so the signal is dropped when the buffer is full.
Signal ==
    /\ exitCode = Running
    /\ stopper' = IF stopper < StopperCap THEN stopper + 1 ELSE stopper
    /\ UNCHANGED << consumed, mainVars, loopVars, hostBig, log, codec >>

CodecIdle == [ stage |-> "idle" ]

\* The state after signal.Notify (main.go:36). The generated types are built
\* for -target 386 (main.go:25), a little-endian host.
Init ==
    /\ mainPc = "rlimit"
    /\ res = [ r \in Resources |-> "none" ]
    /\ closes = [ r \in Resources |-> 0 ]
    /\ closeOrder = << >>
    /\ defers = << >>
    /\ stopper = 0
    /\ consumed = 0
    /\ exitCode = Running
    /\ hostBig = FALSE
    /\ pc = [ p \in Procs |-> "idle" ]
    /\ lastRead = [ p \in Procs |-> NoRead ]
    /\ event = [ p \in Procs |-> ZeroValue(LayoutOf(p)) ]
    /\ nreads = [ p \in Procs |-> 0 ]
    /\ log = << >>
    /\ codec = CodecIdle

Next ==
    \/ RemoveMemlock
    \/ LoadBpfObjects
    \/ Kprobe
    \/ AttachTracing
    \/ NewReader
    \/ Listening
    \/ Go
    \/ WaitSignal
    \/ RunDeferred
    \/ Exit
    \/ Signal
    \/ readLoopSipMessages
    \/ readLoopTcpClose
    \/ readLoopTcpLatency

Spec == Init /\ [][Next]_vars

(***************************************************************************)
(* The decoders and formatters on their own: a synthetic event of one kind  *)
(* is encoded in that kind's byte order, possibly cut short, and handed to  *)
(* that kind's loop body as the record of a successful read. The host's     *)
(* byte order is either one here.                                           *)
(***************************************************************************)
\* Addresses as four bytes (first and last below 128, so that the 32-bit
\* value fits the model's integers in either byte order).
AddrBytes == { << 10, 0, 0, 1 >>, << 10, 0, 0, 2 >>, << 127, 1, 2, 3 >> }

\* Microsecond values: the two of the end-to-end scenarios, ties of the
\* two-decimal rounding on either side, one that rounds up, and zero.
Micros == { 0, 125, 1005, 1500, 1999, 2500, 2675 }

EventDomain(p, native) ==
    CASE p = "sip" ->
           { [ Pid |-> pid, Fd |-> 7, Len |-> len, Comm |-> c, Msg |-> m ] :
               pid \in { 1, 4138 }, len \in { 2, 258 }, c \in WideNames,
               m \in { MsgOf(<< 111, 107 >>), MsgOf(<< >>) } }
      [] p = "tcpclose" ->
           { [ Saddr |-> Uint(a, native), Daddr |-> Uint(<< 10, 0, 0, 2 >>, native),
               Sport |-> 5000, Dport |-> dp, Srtt |-> rtt, Comm |-> c ] :
               a \in AddrBytes, dp \in { 5060, 80 }, rtt \in Micros, c \in WideNames }
      [] p = "latency" ->
           { [ DeltaUs |-> d, Comm |-> c ] :
               d \in Micros \cup { 16777226 }, c \in WideNames }

NoIteration == Iteration("none", << >>, << >>)

CodecInput(p, ev) ==
    [ stage |-> "input", kind |-> p, ev |-> ev, raw |-> << >>, result |-> NoIteration ]

InitCodec ==
    /\ mainPc = "rlimit"
    /\ res = [ r \in Resources |-> "none" ]
    /\ closes = [ r \in Resources |-> 0 ]
    /\ closeOrder = << >>
    /\ defers = << >>
    /\ stopper = 0
    /\ consumed = 0
    /\ exitCode = Running
    /\ hostBig \in BOOLEAN
    /\ pc = [ p \in Procs |-> "idle" ]
    /\ lastRead = [ p \in Procs |-> NoRead ]
    /\ event = [ p \in Procs |-> ZeroValue(LayoutOf(p)) ]
    /\ nreads = [ p \in Procs |-> 0 ]
    /\ log = << >>
    /\ \E p \in Procs : \E ev \in EventDomain(p, NativeEndian) :
         codec = CodecInput(p, ev)

systemVars == << mainVars, signalVars, loopVars, hostBig, log >>

\* The producer writes the event in the kind's byte order.
CodecEncode ==
    /\ codec.stage = "input"
    /\ codec' = [ codec EXCEPT !.stage = "encoded",
                    !.raw = EncodeFields(codec.ev, WireOrder(codec.kind),
                                         LayoutOf(codec.kind)) ]
    /\ UNCHANGED systemVars

\* The record loses its tail: it is empty, one byte long, or one byte short.
CodecTruncate ==
    /\ codec.stage = "encoded"
    /\ \E n \in { 0, 1, Len(codec.raw) - 1 } :
         codec' = [ codec EXCEPT !.stage = "cut", !.raw = SubSeq(codec.raw, 1, n) ]
    /\ UNCHANGED systemVars

\* The kind's loop body runs on the record, its event variable still zero.
CodecDecode ==
    /\ codec.stage \in { "encoded", "cut" }
    /\ codec' = [ codec EXCEPT !.stage = IF codec.stage = "cut" THEN "decodedcut"
                                          ELSE "decoded",
                    !.result = BodyOf(codec.kind, ReadOk(codec.raw, 0),
                                      ZeroValue(LayoutOf(codec.kind)), NativeEndian) ]
    /\ UNCHANGED systemVars

NextCodec ==
    \/ CodecEncode
    \/ CodecTruncate
    \/ CodecDecode

SpecCodec == InitCodec /\ [][NextCodec]_vars

(***************************************************************************)
(* Vocabulary of the properties.                                           *)
(***************************************************************************)
\* The lines this step appends to the log, and those of them written by p.
NewLines == SubSeq(log', Len(log) + 1, Len(log'))
NewLinesOf(p) == SelectSeq(NewLines, LAMBDA l : l.src = p)
NewEventLinesOf(p) == SelectSeq(NewLines, LAMBDA l : l.src = p /\ l.kind = "event")

\* This step is the return of loop p's rd.Read().
ReadReturned(p) ==
    /\ pc[p] = "read"
    /\ nreads'[p] # nreads[p] \/ pc'[p] # "read"

\* This step is the log call of loop p's iteration.
Printed(p) == pc[p] = "print" /\ pc'[p] # "print"

\* This step is a step of loop p.
LoopStepped(p) == ReadReturned(p) \/ Printed(p)

\* A read result that is a record of at least the layout's length, no loss.
IsFullRecord(p, rr) ==
    rr.err = "nil" /\ rr.LostSamples = 0 /\ Len(rr.RawSample) >= LayoutSize(LayoutOf(p))
IsShortRecord(p, rr) ==
    rr.err = "nil" /\ rr.LostSamples = 0 /\ Len(rr.RawSample) < LayoutSize(LayoutOf(p))

\* The bytes of the process-name field of a full raw record of p's kind.
CommBytes(p, raw) ==
    LET i == FieldIndex(LayoutOf(p), "Comm")
    IN  SubSeq(raw, FieldOffset(LayoutOf(p), i) + 1, FieldOffset(LayoutOf(p), i) + CommLen)

SippSignature == << 115, 105, 112, 112 >>

LinesOf(p) == SelectSeq(log, LAMBDA l : l.src = p)

(***************************************************************************)
(* C1. When a loop's reader has been closed and the loop is in its read,    *)
(* the read returns Closed; the loop then ends, at once or with its log     *)
(* call, which writes no error or loss line; having read Closed a loop      *)
(* never reads again.                                                       *)
(***************************************************************************)
C1_ClosedReadEndsLoopQuietly ==
    /\ [] \A p \in Procs : lastRead[p].err = ErrClosed => pc[p] \in { "print", "done" }
    /\ [][ \A p \in Procs :
             /\ (res[ReaderOf(p)] = "closed" /\ ReadReturned(p)) =>
                   /\ lastRead'[p].err = ErrClosed
                   /\ pc'[p] \in { "print", "done" }
                   /\ NewLines = << >>
             /\ (lastRead[p].err = ErrClosed /\ Printed(p)) =>
                   /\ pc'[p] = "done"
                   /\ \A i \in DOMAIN NewLines :
                         NewLines[i].src = p /\ NewLines[i].kind \notin { "error", "loss" }
         ]_vars

\* All three loops have ended on Closed, their readers closed under them.
C1_Witness ==
    \A p \in Procs :
        pc[p] = "done" /\ lastRead[p].err = ErrClosed /\ res[ReaderOf(p)] = "closed"

(***************************************************************************)
(* C2, as claimed. A decoded event whose process-name field is not "sipp"   *)
(* (padded with zeros to the field's width) yields no event line; one whose *)
(* field is exactly that yields exactly one: a line is due for a record     *)
(* when, and only when, its field is exactly "sipp".                        *)
(***************************************************************************)
C2_WholeFieldDecidesOutput ==
    [][ \A p \in Procs :
          (ReadReturned(p) /\ IsFullRecord(p, lastRead'[p])) =>
             (pc'[p] = "print" <=> CommBytes(p, lastRead'[p].RawSample) = NameSipp)
      ]_vars

(***************************************************************************)
(* C2, amended. A decoded event yields exactly one event line when the      *)
(* first four bytes of its process-name field are 's','i','p','p', whatever *)
(* follows them, and no line otherwise: with those four bytes the loop goes *)
(* to its log call, which writes that one line and nothing else; without    *)
(* them the loop goes to its next read and nothing is written.              *)
(***************************************************************************)
HasSippPrefix(p, rr) == SubSeq(CommBytes(p, rr.RawSample), 1, 4) = SippSignature

C2_PrefixDecidesOutput ==
    [][ \A p \in Procs :
          /\ (ReadReturned(p) /\ IsFullRecord(p, lastRead'[p])) =>
                /\ NewLines = << >>
                /\ pc'[p] = IF HasSippPrefix(p, lastRead'[p]) THEN "print" ELSE "read"
          /\ (Printed(p) /\ IsFullRecord(p, lastRead[p])) =>
                /\ HasSippPrefix(p, lastRead[p])
                /\ Len(NewLines) = 1
                /\ Len(NewEventLinesOf(p)) = 1
                /\ pc'[p] = "read"
      ]_vars

\* A loop has read a record of process "sippd" and its line is in the log,
\* and another loop has read a record of "curl" and written nothing.
C2_Witness ==
    \E p, q \in Procs :
        /\ IsFullRecord(p, lastRead[p])
        /\ CommBytes(p, lastRead[p].RawSample) = NameSippd
        /\ Len(SelectSeq(LinesOf(p), LAMBDA l : l.kind = "event")) = 1
        /\ IsFullRecord(q, lastRead[q])
        /\ CommBytes(q, lastRead[q].RawSample) = NameCurl
        /\ pc[q] = "read"
        /\ LinesOf(q) = << >>

(***************************************************************************)
(* C3, as claimed. When the process has exited, no resource acquired in the *)
(* run is still unreleased, also when a startup step failed.                *)
(***************************************************************************)
C3_ExitReleasesEverything ==
    exitCode # Running => \A r \in Resources : res[r] # "open"

(***************************************************************************)
(* C4. Close is called on the resources in the reverse of the order of      *)
(* acquisition: rd3, rd2, rd1, the tracing link, kp4..kp1, the objects;     *)
(* and only after the signal was received.                                  *)
(***************************************************************************)
ReverseAcquisition ==
    << "rd3", "rd2", "rd1", "link", "kp4", "kp3", "kp2", "kp1", "objs" >>

C4_ReleaseInReverseOrder ==
    /\ Len(closeOrder) <= Len(ReverseAcquisition)
    /\ closeOrder = SubSeq(ReverseAcquisition, 1, Len(closeOrder))
    /\ closeOrder # << >> => consumed = 1
    /\ exitCode = 0 => closeOrder = ReverseAcquisition

\* The process has exited after the signal, everything closed.
C4_Witness ==
    exitCode = 0 /\ Len(closeOrder) = 9 /\ \A r \in Resources : res[r] = "closed"

(***************************************************************************)
(* C5. In the latency loop a successful read that reports lost samples      *)
(* leaves the event variable as it was (nothing is decoded) and leads to    *)
(* the log call, which writes one loss line with the count and no event     *)
(* line, and the loop reads again; a zero-loss record, also one read right  *)
(* before or after a loss report, is decoded field by field and filtered as *)
(* usual.                                                                   *)
(***************************************************************************)
IsLossReport(rr) == rr.err = "nil" /\ rr.LostSamples # 0

C5_LossIsLoggedAndSkipped ==
    [][ /\ ReadReturned("latency") =>
             LET rr == lastRead'["latency"]
                 raw == rr.RawSample
             IN  /\ NewLines = << >>
                 /\ IsLossReport(rr) =>
                       /\ event'["latency"] = event["latency"]
                       /\ pc'["latency"] = "print"
                 /\ IsFullRecord("latency", rr) =>
                       /\ event'["latency"].DeltaUs = UintLE(SubSeq(raw, 1, 8))
                       /\ event'["latency"].Comm = CommBytes("latency", raw)
                       /\ pc'["latency"] =
                            IF HasSippPrefix("latency", rr) THEN "print" ELSE "read"
        /\ (Printed("latency") /\ IsLossReport(lastRead["latency"])) =>
             /\ Len(NewLines) = 1
             /\ NewLines[1].src = "latency"
             /\ NewLines[1].kind = "loss"
             /\ NewLines[1].args = << FmtD(lastRead["latency"].LostSamples) >>
             /\ event'["latency"] = event["latency"]
             /\ pc'["latency"] = "read"
        /\ (Printed("latency") /\ IsFullRecord("latency", lastRead["latency"])) =>
             /\ Len(NewLines) = 1
             /\ Len(NewEventLinesOf("latency")) = 1
      ]_vars

\* The log holds a loss line directly followed by the event line of the next
\* record of the latency loop.
C5_Witness ==
    \E i \in 1..(Len(log) - 1) :
        /\ log[i].kind = "loss"
        /\ log[i + 1].kind = "event"
        /\ log[i + 1].src = "latency"
        /\ IsFullRecord("latency", lastRead["latency"])

(***************************************************************************)
(* C6. A record shorter than its kind's layout makes the decode fail: the   *)
(* loop leaves its event variable alone and goes to its log call, which     *)
(* writes one error line naming the decode error and no event line, and the *)
(* loop reads again.                                                        *)
(***************************************************************************)
C6_ShortRecordIsLoggedAndSkipped ==
    [][ \A p \in Procs :
          /\ (ReadReturned(p) /\ IsShortRecord(p, lastRead'[p])) =>
                /\ NewLines = << >>
                /\ event'[p] = event[p]
                /\ pc'[p] = "print"
          /\ (Printed(p) /\ IsShortRecord(p, lastRead[p])) =>
                /\ Len(NewLines) = 1
                /\ NewLines[1].src = p
                /\ NewLines[1].kind = "error"
                /\ NewLines[1].args \in { ErrText("EOF"), ErrText("unexpected EOF") }
                /\ event'[p] = event[p]
                /\ pc'[p] = "read"
      ]_vars

\* A loop logged a decode error and later wrote an event line: it went on.
C6_Witness ==
    \E p \in Procs : \E i, j \in DOMAIN log :
        /\ i < j
        /\ log[i].src = p /\ log[i].kind = "error"
        /\ log[i].args = ErrText("unexpected EOF")
        /\ log[j].src = p /\ log[j].kind = "event"

(***************************************************************************)
(* C7. No probe (kp1..kp4, the tracing link) is closed twice, and when the  *)
(* process has exited after the signal each of them was closed once.        *)
(***************************************************************************)
C7_ProbesReleasedExactlyOnce ==
    /\ \A r \in Probes : closes[r] <= 1
    /\ exitCode = 0 => \A r \in Probes : closes[r] = 1 /\ res[r] = "closed"

\* The signal was received and main has returned.
C7_Witness ==
    consumed = 1 /\ mainPc = "exited" /\ \A r \in Probes : closes[r] = 1

(***************************************************************************)
(* C10. A loop has ended only when its latest read returned Closed, and     *)
(* after a read that returned Closed it never reads again; after any other  *)
(* read (a transient error, a loss report, a short record, a filtered or a  *)
(* printed record) it is at its read again, at once or after its log call.  *)
(* A loop is never anywhere but not started, in its read, at its log call,  *)
(* or ended, and at its log call it has a line to write and a next position *)
(* to go to.                                                                *)
(***************************************************************************)
C10_LoopEndsOnlyOnClosed ==
    \A p \in Procs :
        /\ pc[p] \in { "idle", "read", "print", "done" }
        /\ pc[p] = "done" => lastRead[p].err = ErrClosed
        /\ lastRead[p].err = ErrClosed => pc[p] \in { "print", "done" }
        /\ pc[p] = "idle" => (nreads[p] = 0 /\ lastRead[p] = NoRead)
        /\ (pc[p] = "print" /\ exitCode = Running) =>
              LET b == BodyOf(p, lastRead[p], event[p], NativeEndian)
              IN  /\ b.out # << >>
                  /\ b.pc = IF lastRead[p].err = ErrClosed THEN "done" ELSE "read"

\* A loop went through two reads that did not return Closed, logged an error
\* on the way, and then ended on Closed.
C10_Witness ==
    \E p \in Procs :
        /\ pc[p] = "done"
        /\ nreads[p] = 2
        /\ \E i \in DOMAIN log : log[i].src = p /\ log[i].kind = "error"

(***************************************************************************)
(* Reading a printed line back, to compare it with the record.              *)
(***************************************************************************)
DigitVal(c) == CHOOSE d \in 0..9 : DigitChars[d + 1] = c
IsDigit(c) == \E d \in 0..9 : DigitChars[d + 1] = c

RECURSIVE ParseD(_)
ParseD(t) == IF t = << >> THEN 0
             ELSE 10 * ParseD(SubSeq(t, 1, Len(t) - 1)) + DigitVal(t[Len(t)])

RECURSIVE TrimRight(_)
TrimRight(t) == IF t # << >> /\ t[Len(t)] = 32 THEN TrimRight(SubSeq(t, 1, Len(t) - 1))
                ELSE t

\* The texts of the scenario, byte by byte.
Text_10_0_0_1 == << 49, 48, 46, 48, 46, 48, 46, 49 >>  \* "10.0.0.1"
Text_10_0_0_2 == << 49, 48, 46, 48, 46, 48, 46, 50 >>  \* "10.0.0.2"
Text_5000 == << 53, 48, 48, 48 >>                      \* "5000"
Text_5060 == << 53, 48, 54, 48 >>                      \* "5060"
Text_2_50 == << 50, 46, 53, 48 >>                      \* "2.50"
Text_1_50 == << 49, 46, 53, 48 >>                      \* "1.50"

\* t is digits, a point and two digits, and is within half a hundredth of
\* n/1000.
ShowsThousandthsWithTwoDecimals(t, n) ==
    /\ Len(t) >= 4
    /\ t[Len(t) - 2] = 46
    /\ \A i \in DOMAIN t : i # Len(t) - 2 => IsDigit(t[i])
    /\ LET H == 100 * ParseD(SubSeq(t, 1, Len(t) - 3))
                + ParseD(SubSeq(t, Len(t) - 1, Len(t)))
       IN  10 * H - 5 <= n /\ n <= 10 * H + 5

(***************************************************************************)
(* C8. A connection-close record of process "sipp" gives exactly one line:  *)
(* the addresses are the dotted quads of the record's address bytes, the    *)
(* ports are the record's ports in decimal, the RTT is srtt/1000 with two   *)
(* decimals; a latency record of "sipp" gives one line with delta/1000 with *)
(* two decimals. 10.0.0.1:5000 -> 10.0.0.2:5060 with srtt 2500 prints       *)
(* "10.0.0.1", "5000", "10.0.0.2", "5060", "2.50"; delta 1500 prints "1.50".*)
(***************************************************************************)
C8_FormattedLines ==
    (codec.stage = "decoded" /\ codec.ev.Comm = NameSipp) =>
        LET out == codec.result.out
            a == out[1].args
            ev == codec.ev
            raw == codec.raw
        IN  /\ codec.kind = "tcpclose" =>
                /\ Len(out) = 1
                /\ out[1].kind = "event"
                /\ TrimRight(a[1]) = IPString(SubSeq(raw, 1, 4))
                /\ ParseD(TrimRight(a[2])) = ev.Sport
                /\ TrimRight(a[3]) = IPString(SubSeq(raw, 5, 8))
                /\ ParseD(TrimRight(a[4])) = ev.Dport
                /\ ShowsThousandthsWithTwoDecimals(a[5], ev.Srtt)
                /\ (/\ SubSeq(raw, 1, 4) = << 10, 0, 0, 1 >>
                    /\ SubSeq(raw, 5, 8) = << 10, 0, 0, 2 >>
                    /\ ev.Sport = 5000 /\ ev.Dport = 5060 /\ ev.Srtt = 2500) =>
                      /\ TrimRight(a[1]) = Text_10_0_0_1
                      /\ TrimRight(a[2]) = Text_5000
                      /\ TrimRight(a[3]) = Text_10_0_0_2
                      /\ TrimRight(a[4]) = Text_5060
                      /\ a[5] = Text_2_50
            /\ codec.kind = "latency" =>
                /\ Len(out) = 1
                /\ out[1].kind = "event"
                /\ ShowsThousandthsWithTwoDecimals(a[1], ev.DeltaUs)
                /\ ev.DeltaUs = 1500 => a[1] = Text_1_50

\* The scenario's connection-close record has been decoded and printed on a
\* big-endian host.
C8_Witness ==
    /\ codec.stage = "decoded"
    /\ codec.kind = "tcpclose"
    /\ hostBig
    /\ codec.ev.Comm = NameSipp
    /\ SubSeq(codec.raw, 1, 4) = << 10, 0, 0, 1 >>
    /\ codec.ev.Dport = 5060
    /\ codec.ev.Srtt = 2500
    /\ Len(codec.result.out) = 1

(***************************************************************************)
(* C9. A record of exactly its kind's layout length, encoded in the kind's  *)
(* byte order (little-endian for message and latency events, the host's for *)
(* connection-close events), decodes without error to the fields that were  *)
(* encoded.                                                                 *)
(***************************************************************************)
C9_DecodeRecoversEncodedFields ==
    codec.stage = "decoded" =>
        /\ Len(codec.raw) = LayoutSize(LayoutOf(codec.kind))
        /\ codec.result.event = codec.ev
        /\ \A i \in DOMAIN codec.result.out : codec.result.out[i].kind # "error"

\* A message record whose pid and len span two bytes has been decoded.
C9_Witness ==
    /\ codec.stage = "decoded"
    /\ codec.kind = "sip"
    /\ codec.ev.Pid = 4138
    /\ codec.ev.Len = 258
    /\ codec.result.event.Pid = 4138
    /\ codec.result.event.Len = 258

(***************************************************************************)
(* C11. After a successful startup and the signal, every loop observes      *)
(* Closed on its reader and ends by returning, not by the exit of the       *)
(* process: when the process has exited with status 0, each loop has read   *)
(* Closed and returned. (main returns right after its deferred Close calls, *)
(* without waiting for the goroutines, so this does not hold.)              *)
(***************************************************************************)
C11_LoopsReturnBeforeExit ==
    exitCode = 0 =>
        \A p \in Procs : pc[p] = "done" /\ lastRead[p].err = ErrClosed

(***************************************************************************)
(* C12. Startup goes in the order: resource limits, load, the four kprobes, *)
(* the tracing link, the three readers. What has been acquired is always a  *)
(* prefix of that order, each acquisition is made with everything before it *)
(* acquired, a failed step writes its fatal line and ends the process with  *)
(* status 1 so that no step follows it, and a loop is started only with the *)
(* objects, all five probes and all three readers open.                     *)
(***************************************************************************)
AcquisitionOrder ==
    << "objs", "kp1", "kp2", "kp3", "kp4", "link", "rd1", "rd2", "rd3" >>

Acquired(r) == res[r] # "none"

AcquiredBefore(i) == \A j \in 1..(i - 1) : res[AcquisitionOrder[j]] = "open"

FatalLogged == \E i \in DOMAIN log : log[i].kind = "fatal"

C12_StartupInOrderOrFatal ==
    /\ [] /\ \E k \in 0..Len(AcquisitionOrder) :
               \A i \in DOMAIN AcquisitionOrder : Acquired(AcquisitionOrder[i]) <=> i <= k
          /\ mainPc = "rlimit" => \A r \in Resources : ~Acquired(r)
          /\ FatalLogged <=> exitCode = 1
          /\ exitCode = 1 =>
                /\ mainPc = "exited"
                /\ \A p \in Procs : pc[p] = "idle"
                /\ \E r \in Probes \cup Readers : ~Acquired(r)
          /\ \A p \in Procs : pc[p] # "idle" => \A r \in Resources : Acquired(r)
    /\ [][ /\ exitCode = Running
           /\ \A i \in DOMAIN AcquisitionOrder :
                (~Acquired(AcquisitionOrder[i]) /\ Acquired(AcquisitionOrder[i])') =>
                    mainPc = AcquisitionOrder[i] /\ AcquiredBefore(i)
           /\ \A p \in Procs :
                (pc[p] = "idle" /\ pc'[p] # "idle") =>
                    /\ \A r \in Resources : res[r] = "open"
                    /\ ~FatalLogged
         ]_vars

\* Startup has succeeded: everything is open, the three loops are at their
\* reads and main waits for the signal.
C12_Witness ==
    /\ mainPc = "wait"
    /\ \A r \in Resources : res[r] = "open"
    /\ \A p \in Procs : pc[p] = "read"

(***************************************************************************)
(* C13. The termination signal is idle until a signal is delivered, raised  *)
(* while one is buffered in stopper and main has not received it, consumed  *)
(* once main has received it. It changes only from idle to raised and from  *)
(* raised to consumed; main receives at most once (a signal delivered later *)
(* is buffered and never received); and nothing is released before the      *)
(* signal is consumed, which happens only after a successful startup.       *)
(***************************************************************************)
SignalState ==
    IF consumed > 0 THEN "consumed" ELSE IF stopper > 0 THEN "raised" ELSE "idle"

C13_SignalLifecycle ==
    /\ [] /\ consumed <= 1
          /\ stopper <= StopperCap
          /\ SignalState # "consumed" =>
                \A r \in Resources : closes[r] = 0 /\ res[r] # "closed"
          /\ SignalState = "consumed" =>
                /\ mainPc \in { "return", "exited" }
                /\ \A r \in Resources : res[r] # "none"
                /\ \A p \in Procs : pc[p] # "idle"
    /\ [][ /\ SignalState' # SignalState =>
                << SignalState, SignalState' >> \in
                    { << "idle", "raised" >>, << "raised", "consumed" >> }
           /\ consumed' >= consumed
           /\ \A r \in Resources : closes'[r] # closes[r] => SignalState = "consumed"
         ]_vars

\* main has received the signal and begun to release; a signal delivered
\* after that sits in the buffer, unreceived.
C13_Witness ==
    /\ consumed = 1
    /\ stopper = 1
    /\ closeOrder # << >>
    /\ exitCode = Running

(***************************************************************************)
(* C14. The three loops read three different readers, and a step of one     *)
(* loop (the return of its read, whatever it returns: an error, a loss      *)
(* report, a short record, Closed, a record; or its log call) leaves the    *)
(* position, the event variable, the last read and the lines of the other   *)
(* two loops as they were, writes only lines of its own at the end of the   *)
(* log, and touches nothing of main.                                        *)
(***************************************************************************)
LinesAfterOf(p) == SelectSeq(log', LAMBDA l : l.src = p)

C14_LoopsAreIndependent ==
    /\ [] \A p, q \in Procs : p # q => ReaderOf(p) # ReaderOf(q)
    /\ [][ \A p \in Procs :
             LoopStepped(p) =>
                /\ \A q \in Procs \ { p } :
                      /\ pc'[q] = pc[q]
                      /\ event'[q] = event[q]
                      /\ lastRead'[q] = lastRead[q]
                      /\ LinesAfterOf(q) = LinesOf(q)
                /\ LinesAfterOf("main") = LinesOf("main")
                /\ SubSeq(log', 1, Len(log)) = log
                /\ \A i \in DOMAIN NewLines : NewLines[i].src = p
                /\ UNCHANGED << mainVars, signalVars >>
         ]_vars

\* The latency loop has ended on Closed and the tcpclose loop has logged an
\* error; after both, the sip loop, still reading, has written an event line.
C14_Witness ==
    /\ pc["latency"] = "done"
    /\ pc["sip"] = "read"
    /\ \E i \in DOMAIN log : log[i].src = "tcpclose" /\ log[i].kind = "error"
    /\ log # << >>
    /\ log[Len(log)].src = "sip"
    /\ log[Len(log)].kind = "event"
    /\ event["tcpclose"] = ZeroValue(LayoutOf("tcpclose"))

(***************************************************************************)
(* C15, as claimed. From its opening to the exit of the process no reader   *)
(* is ever closed by the program.                                           *)
(***************************************************************************)
C15_ReadersNeverClosed ==
    \A r \in Readers : closes[r] = 0 /\ res[r] # "closed"

(***************************************************************************)
(* C15, as the code has it. A reader stays open from its opening until main *)
(* has received the signal; main's deferred calls then close each reader    *)
(* once, all three before the process exits with status 0, and a loop still *)
(* at its read on a closed reader gets Closed from it. A reader is never    *)
(* closed twice, and on the exit with status 1 none is closed.              *)
(***************************************************************************)
C15_ReadersClosedOnlyOnReturn ==
    /\ \A r \in Readers :
          /\ closes[r] <= 1
          /\ res[r] = "closed" <=> closes[r] = 1
          /\ consumed = 0 => closes[r] = 0
          /\ exitCode = 0 => closes[r] = 1
          /\ exitCode = 1 => closes[r] = 0
          /\ closes[r] = 1 => r \notin { defers[i] : i \in DOMAIN defers }
    /\ \A p \in Procs :
          (exitCode = Running /\ pc[p] = "read" /\ res[ReaderOf(p)] = "closed") =>
              ReadResults(p) = { ReadErr(ErrClosed) }

\* main has received the signal and closed the three readers, nothing else
\* yet; one loop has ended on Closed and another is still at its read.
C15_Witness ==
    /\ exitCode = Running
    /\ closeOrder = << "rd3", "rd2", "rd1" >>
    /\ \A r \in Readers : closes[r] = 1
    /\ pc["sip"] = "done"
    /\ lastRead["sip"].err = ErrClosed
    /\ pc["tcpclose"] = "read"

(***************************************************************************)
(* C16. The log call of an iteration writes at most one event line, and     *)
(* writes it only when the loop's latest read returned a full record        *)
(* without loss; the line and the event variable are then those of the      *)
(* fields of that very record. After a read error, a loss report or a short *)
(* record the event variable still holds the previous record and no event   *)
(* line is written. A loop's event lines never outnumber its successful     *)
(* reads.                                                                   *)
(***************************************************************************)
\* The fields of a full raw record of p's kind, in the byte order of its wire.
RecordFields(p, raw) ==
    BinaryRead(raw, WireOrder(p), LayoutOf(p), ZeroValue(LayoutOf(p))).data

EventLineOf(p, ev) ==
    CASE p = "sip" -> SipLine(ev)
      [] p = "tcpclose" -> TcpCloseLine(ev, NativeEndian)
      [] p = "latency" -> LatencyLine(ev)

IsReadErrorLine(l) ==
    /\ l.kind = "error"
    /\ l.fmt \in { "reading from reader: %s", "reading from perf event reader: %s" }

EventLinesOf(p) == SelectSeq(LinesOf(p), LAMBDA l : l.kind = "event")

\* The reads of p that returned without error: all its reads that did not
\* return Closed, but those whose read error is logged or about to be.
SuccessfulReads(p) ==
    nreads[p] - Len(SelectSeq(LinesOf(p), IsReadErrorLine))
              - (IF pc[p] = "print" /\ lastRead[p].err \notin { "nil", ErrClosed }
                 THEN 1 ELSE 0)

C16_LinesComeFromTheRecordJustRead ==
    /\ [] \A p \in Procs : Len(EventLinesOf(p)) <= SuccessfulReads(p)
    /\ [][ \A p \in Procs :
             /\ ReadReturned(p) =>
                   /\ NewLines = << >>
                   /\ IsFullRecord(p, lastRead'[p]) =>
                         event'[p] = RecordFields(p, lastRead'[p].RawSample)
                   /\ ~IsFullRecord(p, lastRead'[p]) => event'[p] = event[p]
             /\ Printed(p) =>
                   /\ Len(NewEventLinesOf(p)) <= 1
                   /\ NewEventLinesOf(p) # << >> =>
                         /\ IsFullRecord(p, lastRead[p])
                         /\ event[p] = RecordFields(p, lastRead[p].RawSample)
                         /\ NewEventLinesOf(p) = << EventLineOf(p, event[p]) >>
                   /\ ~IsFullRecord(p, lastRead[p]) => NewEventLinesOf(p) = << >>
                   /\ event'[p] = event[p]
                   /\ lastRead'[p] = lastRead[p]
         ]_vars

\* The sip loop wrote a line for a record of "sipp"; its next read brought a
\* short record, now logged: the event variable still holds the earlier
\* record, and there is still that one line only.
C16_Witness ==
    /\ nreads["sip"] = 2
    /\ pc["sip"] = "read"
    /\ IsShortRecord("sip", lastRead["sip"])
    /\ event["sip"].Comm = NameSipp
    /\ Len(EventLinesOf("sip")) = 1
    /\ SuccessfulReads("sip") = 2

(***************************************************************************)
(* C17. Within one stream the event lines are in the order in which the     *)
(* reader returned their records. A loop's log call leaves the earlier      *)
(* lines of its stream where they are and puts the line of the record read  *)
(* last after them, and the loop reads again only after that call; so       *)
(* whenever a loop is not at its log call and the record it read last is a  *)
(* full record of a matching process, that record's line is the last event  *)
(* line of the stream.                                                      *)
(***************************************************************************)
Matches(p, rr) == IsFullRecord(p, rr) /\ HasSippPrefix(p, rr)

LineOfRecord(p, rr) == EventLineOf(p, RecordFields(p, rr.RawSample))

C17_PerStreamFifo ==
    /\ [] \A p \in Procs :
            /\ (Matches(p, lastRead[p]) /\ pc[p] # "print") =>
                  /\ EventLinesOf(p) # << >>
                  /\ EventLinesOf(p)[Len(EventLinesOf(p))] = LineOfRecord(p, lastRead[p])
            /\ Matches(p, lastRead[p]) => pc[p] \in { "print", "read" }
    /\ [][ \A p \in Procs :
             /\ ReadReturned(p) =>
                   /\ LinesAfterOf(p) = LinesOf(p)
                   /\ Matches(p, lastRead'[p]) => pc'[p] = "print"
             /\ Printed(p) =>
                   /\ LinesAfterOf(p) = LinesOf(p) \o NewLinesOf(p)
                   /\ NewEventLinesOf(p) =
                         IF Matches(p, lastRead[p])
                         THEN << LineOfRecord(p, lastRead[p]) >>
                         ELSE << >>
         ]_vars

\* The tcpclose reader returned a record of "sippd" and then one of "sipp":
\* the stream's lines are those two, in that order.
C17_Witness ==
    /\ nreads["tcpclose"] = 2
    /\ EventLinesOf("tcpclose") =
          << TcpCloseLine(SampleEvent("tcpclose", NameSippd), NativeEndian),
             TcpCloseLine(SampleEvent("tcpclose", NameSipp), NativeEndian) >>
    /\ event["tcpclose"] = SampleEvent("tcpclose", NameSipp)

====
